---- MODULE Spec2Model ----
(***************************************************************************)
(* The RDP command processor of r64emu (src/src/rdp/rdp.rs): the pending   *)
(* command buffer, the opcode dispatch of Rdp::op and the register state   *)
(* its handlers write.                                                     *)
(*                                                                         *)
(* A 64-bit command word is a tuple of four 16-bit limbs, least            *)
(* significant first: w[1] holds bits 0..15, w[4] bits 48..63.  A 32-bit   *)
(* value (fill_color, the blend colour) is a pair of 16-bit limbs.         *)
(*                                                                         *)
(* A panic! unwinds out of Rdp::op and leaves the Rdp as it was at the     *)
(* panic; the variable fault names the panic of the last call.             *)
(*                                                                         *)
(* cmdbuf is the live prefix cmdbuf[0 .. cmdlen) of the 16-word array: op  *)
(* writes cmdbuf[cmdlen] (line 102) before it reads cmdbuf[0] (line 105)   *)
(* or cmdbuf[1] (lines 167-170), so an entry at or past cmdlen is never    *)
(* read.  calls lists the bus and raster calls of the last call of op, and *)
(* last records that call: the opcode it dispatched on, the word submitted *)
(* and the pending length on entry.                                        *)
(***************************************************************************)
EXTENDS Integers, Sequences, FiniteSets, TLC

VARIABLES tmem, clip, fb, tex, tiles, fill_color, cycle_mode, pipeline,
          cmdbuf, cmdlen, calls, fault, last

vars == <<tmem, clip, fb, tex, tiles, fill_color, cycle_mode, pipeline,
          cmdbuf, cmdlen, calls, fault, last>>

\* The registers of the Rdp (every field but tmem, pipeline and the buffer).
regs == <<clip, fb, tex, tiles, fill_color, cycle_mode>>

-----------------------------------------------------------------------------
(* Bit fields of a command word (bit_field::BitField on u64).              *)

\* 2^n for n in 0..30, as a table.
Pow2Table ==
    << 1, 2, 4, 8, 16, 32, 64, 128, 256, 512, 1024, 2048, 4096, 8192, 16384,
       32768, 65536, 131072, 262144, 524288, 1048576, 2097152, 4194304,
       8388608, 16777216, 33554432, 67108864, 134217728, 268435456,
       536870912, 1073741824 >>

Pow2(n) == Pow2Table[n + 1]

\* cmd.get_bit(k), as 0 or 1
GetBit(w, k) == (w[(k \div 16) + 1] \div Pow2(k % 16)) % 2

Max(a, b) == IF a > b THEN a ELSE b
Min(a, b) == IF a < b THEN a ELSE b

\* The bits of limb i (bits 16i .. 16i+15 of the word) that lie in lo .. hi-1,
\* at their place in the field.
LimbPart(w, i, lo, hi) ==
    LET a == Max(lo, 16 * i)
        b == Min(hi, 16 * i + 16)
    IN  IF a < b
        THEN ((w[i + 1] \div Pow2(a - 16 * i)) % Pow2(b - a)) * Pow2(a - lo)
        ELSE 0

\* cmd.get_bits(lo..hi): bits lo .. hi-1, bit lo least significant (hi - lo <= 30).
\* A field within one limb is read from that limb alone.
GetBits(w, lo, hi) ==
    IF lo \div 16 = (hi - 1) \div 16
    THEN (w[(lo \div 16) + 1] \div Pow2(lo % 16)) % Pow2(hi - lo)
    ELSE LimbPart(w, 0, lo, hi) + LimbPart(w, 1, lo, hi)
         + LimbPart(w, 2, lo, hi) + LimbPart(w, 3, lo, hi)

\* A word from its fields <<lo, hi, value>>: value sits in bits lo .. hi-1.
RECURSIVE LimbOf(_, _, _)
LimbOf(fields, base, k) ==
    IF k = 16 THEN 0
    ELSE LET b == base + k
             hit == {i \in 1..Len(fields) : fields[i][1] <= b /\ b < fields[i][2]}
             bit == IF hit = {} THEN 0
                    ELSE LET f == fields[CHOOSE i \in hit : TRUE]
                         IN  (f[3] \div Pow2(b - f[1])) % 2
         IN  bit * Pow2(k) + LimbOf(fields, base, k + 1)

MkWord(fields) ==
    << LimbOf(fields, 0, 0), LimbOf(fields, 16, 0),
       LimbOf(fields, 32, 0), LimbOf(fields, 48, 0) >>

ZeroWord == <<0, 0, 0, 0>>

-----------------------------------------------------------------------------
(* Fixed point and rectangles (emu::fp, emu::gfx).  A Q<U30F2> or Q<I30F2> *)
(* is held as its raw bits: two fractional bits, so 1.0 is 4.  The raw     *)
(* bits are a u32; a negative number v stands for the wrapped v + 2^32,    *)
(* which has the same two fractional bits.                                 *)

FracBits == 2

\* Q::from_int(n)
FromInt(n) == n * Pow2(FracBits)

\* q.floor() as an integer
Floor(q) == q \div Pow2(FracBits)

\* q.floor() as usize, of the u32 that q stands for.
FloorU(q) == IF q >= 0 THEN Floor(q) ELSE Pow2(32 - FracBits) + Floor(q)

\* Rect::from_bits(x0, y0, x1, y1): corners c0 = (x0, y0), c1 = (x1, y1).
RectFromBits(x0, y0, x1, y1) ==
    [c0 |-> [x |-> x0, y |-> y0], c1 |-> [x |-> x1, y |-> y1]]

\* Rect::default()
DefaultRect == RectFromBits(0, 0, 0, 0)

Width(r) == r.c1.x - r.c0.x
Height(r) == r.c1.y - r.c0.y
SetWidth(r, w) == [r EXCEPT !.c1.x = r.c0.x + w]
SetHeight(r, h) == [r EXCEPT !.c1.y = r.c0.y + h]

\* rect.truncate().cast::<U30F2>(): every coordinate with its fraction cleared.
TruncQ(q) == FromInt(Floor(q))
Truncate(r) ==
    RectFromBits(TruncQ(r.c0.x), TruncQ(r.c0.y), TruncQ(r.c1.x), TruncQ(r.c1.y))

\* rect.cast::<U27F5>(): the same rectangle with five fractional bits.
CastU27F5(r) ==
    RectFromBits(r.c0.x * 8, r.c0.y * 8, r.c1.x * 8, r.c1.y * 8)

-----------------------------------------------------------------------------
(* Colour formats and cycle modes (super::DpColorFormat, super::CycleMode). *)

ColorFormats == <<"Rgba", "Yuv", "ColorIndex", "IntensityAlpha", "Intensity">>

\* DpColorFormat::from_bits: Some(format) for an enumerated code, else None.
FromBits(bits) ==
    IF bits < Len(ColorFormats) THEN ColorFormats[bits + 1] ELSE "None"

\* A parse that unwraps the result of from_bits and so fails on an unknown code.
parse_color_format_strict(bits) == FromBits(bits)

\* Rdp::parse_color_format: an unknown code is logged and read as Rgba.
parse_color_format(bits) ==
    IF FromBits(bits) = "None" THEN "Rgba" ELSE FromBits(bits)

\* A match with the arms of Two and Copy exchanged.
CycleModeOfSwapped(bits) ==
    CASE bits = 0 -> "One"
      [] bits = 1 -> "Copy"
      [] bits = 2 -> "Two"
      [] bits = 3 -> "Fill"

\* The match of Set Other Modes on the 2-bit cycle field.
CycleModeOf(bits) ==
    CASE bits = 0 -> "One"
      [] bits = 1 -> "Two"
      [] bits = 2 -> "Copy"
      [] bits = 3 -> "Fill"

-----------------------------------------------------------------------------
(* The state after Rdp::new.                                               *)

\* ImageFormat::default(): derived Default, every number 0.
DefaultImageFormat ==
    [color_format |-> "Rgba", bpp |-> 0, width |-> 0, dram_addr |-> 0]

\* ImageFormat::pitch
ImagePitch(f) == (f.width * f.bpp) \div 8

\* TileDescriptor::default(): derived Default.
DefaultTile ==
    [color_format |-> "Rgba", bpp |-> 0, pitch |-> 0, tmem_addr |-> 0,
     palette |-> 0, clamp |-> <<FALSE, FALSE>>, mirror |-> <<FALSE, FALSE>>,
     mask |-> <<0, 0>>, shift |-> <<0, 0>>, rect |-> DefaultRect]

TileIdx == 0..7

\* tmem.resize(4096, 0)
TmemSize == 4096

\* A view (buffer, width, height, pitch) handed to the raster collaborator;
\* mem names the memory it borrows and addr the offset it starts at.
View(mem, addr, w, h, pitch) ==
    [mem |-> mem, addr |-> addr, width |-> w, height |-> h, pitch |-> pitch]

NoView == View("none", 0, 0, 0, 0)

\* One call into the bus or the raster collaborator.
Call(fn, dst, src, rect, a, b) ==
    [fn |-> fn, dst |-> dst, src |-> src, rect |-> rect, a |-> a, b |-> b]

\* tmem holds zeroes until a Load Tile copies into it; the model keeps what
\* the last copy wrote: the destination view, the source view, the rectangle.
ZeroTmem == [dst |-> NoView, src |-> NoView, rect |-> DefaultRect, bpp |-> 0]

\* PixelPipeline::new(): nothing forwarded yet.
NewPipeline ==
    [other_modes |-> ZeroWord, combine_mode |-> ZeroWord, blend_color |-> <<0, 0>>,
     configured |-> {}]

Init ==
    /\ tmem = ZeroTmem
    /\ clip = DefaultRect
    /\ fb = DefaultImageFormat
    /\ tex = DefaultImageFormat
    /\ tiles = [i \in TileIdx |-> DefaultTile]
    /\ fill_color = <<0, 0>>
    /\ cycle_mode = "One"
    /\ pipeline = NewPipeline
    /\ cmdbuf = <<>>
    /\ cmdlen = 0
    /\ calls = <<>>
    /\ fault = "none"
    /\ last = [op |-> -1, cmd |-> ZeroWord, len |-> 0]

-----------------------------------------------------------------------------
(* Rdp::op.                                                                *)

\* The longest pending buffer a call of op is entered with, plus one.
MaxPending == 2

\* Lines 102-103: the word is stored at index cmdlen and cmdlen incremented.
Buffered(cmd) == SubSeq(cmdbuf, 1, cmdlen) \o <<cmd>>

\* Line 105: the opcode is read from cmdbuf[0], which is the word just stored
\* when nothing was pending.
OpOf(cmd) == GetBits(IF cmdlen = 0 THEN cmd ELSE cmdbuf[1], 56, 62)

KnownOps == {45, 61, 63, 40, 47, 36, 52, 53, 54, 55, 60, 57}

\* The match arm for opcode code is entered.
Dispatch(cmd, code) == cmdlen < MaxPending /\ OpOf(cmd) = code

Entered(cmd) == last' = [op |-> OpOf(cmd), cmd |-> cmd, len |-> cmdlen]

\* self.cmdlen = 0 at the end of an arm.
Completed(cmd) ==
    /\ cmdlen' = 0
    /\ cmdbuf' = <<>>
    /\ fault' = "none"
    /\ Entered(cmd)

\* A panic! leaves op before the arm's self.cmdlen = 0.
Panicked(cmd, what) ==
    /\ cmdlen' = cmdlen + 1
    /\ cmdbuf' = Buffered(cmd)
    /\ fault' = what
    /\ Entered(cmd)

\* The low 32 bits of a word (cmd as u32, cmd.get_bits(0..32) as u32).
Low32(cmd) == <<GetBits(cmd, 0, 16), GetBits(cmd, 16, 32)>>

\* A 16-bit field as i16.
AsI16(v) == IF v >= 32768 THEN v - 65536 ELSE v

\* 0x2D Set Scissor
SetScissor(cmd) ==
    /\ Dispatch(cmd, 45)
    /\ clip' = RectFromBits(GetBits(cmd, 44, 56), GetBits(cmd, 32, 44),
                            GetBits(cmd, 12, 24), GetBits(cmd, 0, 12))
    /\ calls' = <<>>
    /\ Completed(cmd)
    /\ UNCHANGED <<tmem, fb, tex, tiles, fill_color, cycle_mode, pipeline>>

\* The ImageFormat decoded by Set Color/Texture Image.
DecodeImageFormat(cmd) ==
    [color_format |-> parse_color_format(GetBits(cmd, 53, 56)),
     bpp |-> 4 * Pow2(GetBits(cmd, 51, 53)),
     width |-> GetBits(cmd, 32, 42) + 1,
     dram_addr |-> GetBits(cmd, 0, 26)]

\* A Set Image that tests the opcode for the wrong register.
SetImageSwapped(cmd) ==
    /\ \/ Dispatch(cmd, 61) /\ fb' = DecodeImageFormat(cmd) /\ tex' = tex
       \/ Dispatch(cmd, 63) /\ tex' = DecodeImageFormat(cmd) /\ fb' = fb
    /\ calls' = <<>>
    /\ Completed(cmd)
    /\ UNCHANGED <<tmem, clip, tiles, fill_color, cycle_mode, pipeline>>

\* 0x3D Set Texture Image, 0x3F Set Color Image
SetImage(cmd) ==
    /\ \/ Dispatch(cmd, 63) /\ fb' = DecodeImageFormat(cmd) /\ tex' = tex
       \/ Dispatch(cmd, 61) /\ tex' = DecodeImageFormat(cmd) /\ fb' = fb
    /\ calls' = <<>>
    /\ Completed(cmd)
    /\ UNCHANGED <<tmem, clip, tiles, fill_color, cycle_mode, pipeline>>

\* 0x28 Sync Tile
SyncTile(cmd) ==
    /\ Dispatch(cmd, 40)
    /\ calls' = <<>>
    /\ Completed(cmd)
    /\ UNCHANGED <<tmem, clip, fb, tex, tiles, fill_color, cycle_mode, pipeline>>

\* 0x2F Set Other Modes
SetOtherModes(cmd) ==
    /\ Dispatch(cmd, 47)
    /\ cycle_mode' = CycleModeOf(GetBits(cmd, 52, 54))
    /\ pipeline' = [pipeline EXCEPT !.other_modes = cmd,
                                    !.configured = @ \cup {"other_modes"}]
    /\ calls' = <<>>
    /\ Completed(cmd)
    /\ UNCHANGED <<tmem, clip, fb, tex, tiles, fill_color>>

\* The integer 1 as a Q of two fractional bits (the 1 of rect.width() - 1
\* and of rect.c1.x + 1).
One == FromInt(1)

\* Lines 160-165: the screen rectangle of the first buffered word.
TexRectScreen(w0) ==
    RectFromBits(GetBits(w0, 12, 24), GetBits(w0, 0, 12),
                 GetBits(w0, 44, 56), GetBits(w0, 32, 44))

\* A decode that takes s and t, and dsdx and dtdy, from each other's bits.
TexRectCoordsSwapped(w1) ==
    << AsI16(GetBits(w1, 32, 48)), AsI16(GetBits(w1, 48, 64)),
       AsI16(GetBits(w1, 0, 16)), AsI16(GetBits(w1, 16, 32)) >>

\* Lines 167-170: s, t, dsdx, dtdy of the second buffered word.
TexRectCoords(w1) ==
    << AsI16(GetBits(w1, 48, 64)), AsI16(GetBits(w1, 32, 48)),
       AsI16(GetBits(w1, 16, 32)), AsI16(GetBits(w1, 0, 16)) >>

\* Lines 176-203: the one call of draw_rect_slopes.
TexRectCall(w0, w1) ==
    LET tile == GetBits(w0, 24, 27)
        rect == TexRectScreen(w0)
        tex_rect == tiles[tile].rect
        src == View("tmem", tiles[tile].tmem_addr,
                    Floor(Width(tex_rect)) + 1, Floor(Height(tex_rect)) + 1,
                    tiles[tile].pitch)
        dst == View("dram", fb.dram_addr, 320, 240, ImagePitch(fb))
        drawn == SetHeight(SetWidth(rect, Width(rect) - One), Height(rect) - One)
    IN  Call("draw_rect_slopes", dst, src, drawn, TexRectCoords(w1),
             <<fb.color_format, fb.bpp, tiles[tile].color_format, tiles[tile].bpp>>)

FetchWrite(addr) ==
    Call("fetch_write", View("dram", addr, 0, 0, 0), NoView, DefaultRect, <<>>, <<>>)

FetchRead(addr) ==
    Call("fetch_read", NoView, View("dram", addr, 0, 0, 0), DefaultRect, <<>>, <<>>)

\* 0x24 Texture Rectangle (2 words)
TextureRectangle(cmd) ==
    /\ Dispatch(cmd, 36)
    /\ \/ /\ cmdlen + 1 # 2
          /\ cmdlen' = cmdlen + 1
          /\ cmdbuf' = Buffered(cmd)
          /\ calls' = <<>>
          /\ fault' = "none"
          /\ Entered(cmd)
       \/ /\ cmdlen + 1 = 2
          /\ calls' = << FetchWrite(fb.dram_addr),
                         TexRectCall(Buffered(cmd)[1], Buffered(cmd)[2]) >>
          /\ Completed(cmd)
    /\ UNCHANGED <<tmem, clip, fb, tex, tiles, fill_color, cycle_mode, pipeline>>

\* Lines 209-214: the tile index and the rectangle of a Load Tile word.
LoadTileIdx(cmd) == GetBits(cmd, 24, 27)

LoadTileRect(cmd) ==
    RectFromBits(GetBits(cmd, 44, 56), GetBits(cmd, 32, 44),
                 GetBits(cmd, 12, 24), GetBits(cmd, 0, 12))

\* Lines 224-227
LoadWidth(cmd) == FloorU(Width(LoadTileRect(cmd))) + 1
LoadHeight(cmd) == FloorU(Height(LoadTileRect(cmd))) + 1

\* A copy that is not truncated to the texture image.
CopyWidthUntruncated(cmd) == LoadWidth(cmd)

CopyWidth(cmd) == Min(LoadWidth(cmd), tex.width)

\* Lines 224-228 subtract unsigned numbers: s1 - s0 and t1 - t0 of an
\* inverted rectangle, and copy_width as u32 - 1 of a copy_width of 0.
LoadOverflows(cmd) ==
    \/ Width(LoadTileRect(cmd)) < 0
    \/ Height(LoadTileRect(cmd)) < 0
    \/ CopyWidth(cmd) = 0

\* Lines 231 and 254: the two combinations that are copied.
LoadSupported(tile_bpp, tex_bpp) ==
    \/ tile_bpp = 16 /\ tex_bpp = 16
    \/ tile_bpp = 8 /\ tex_bpp = 8

\* Lines 232-253 and 255-272: the one call of draw_rect.
LoadTileCall(cmd) ==
    LET tile == LoadTileIdx(cmd)
        dst == View("tmem", tiles[tile].tmem_addr, CopyWidth(cmd), LoadHeight(cmd),
                    tiles[tile].pitch)
        src == View("dram", tex.dram_addr, CopyWidth(cmd), LoadHeight(cmd),
                    ImagePitch(tex))
        rect == SetWidth(LoadTileRect(cmd), FromInt(CopyWidth(cmd) - 1))
    IN  Call("draw_rect", dst, src, CastU27F5(rect), <<0, 0>>, <<tex.bpp>>)

\* 0x34 Load Tile.  An overflowing subtraction is a panic in a build with
\* overflow checks and wraps in a build without: both outcomes are kept.
LoadTile(cmd) ==
    /\ Dispatch(cmd, 52)
    /\ tiles' = [tiles EXCEPT ![LoadTileIdx(cmd)].rect = LoadTileRect(cmd)]
    /\ \/ /\ LoadOverflows(cmd)
          /\ calls' = <<FetchRead(tex.dram_addr)>>
          /\ tmem' = tmem
          /\ Panicked(cmd, "overflow")
       \/ /\ LoadSupported(tiles[LoadTileIdx(cmd)].bpp, tex.bpp)
          /\ calls' = <<FetchRead(tex.dram_addr), LoadTileCall(cmd)>>
          /\ tmem' = [dst |-> LoadTileCall(cmd).dst, src |-> LoadTileCall(cmd).src,
                      rect |-> LoadTileCall(cmd).rect, bpp |-> tex.bpp]
          /\ Completed(cmd)
       \/ /\ ~LoadSupported(tiles[LoadTileIdx(cmd)].bpp, tex.bpp)
          /\ calls' = <<FetchRead(tex.dram_addr)>>
          /\ tmem' = tmem
          /\ Panicked(cmd, "load_tile_bpp")
    /\ UNCHANGED <<clip, fb, tex, fill_color, cycle_mode, pipeline>>

\* A decode that reads the fields of axis 0 where those of axis 1 lie.
DecodeTileSwapped(cmd, old) ==
    [color_format |-> parse_color_format(GetBits(cmd, 53, 56)),
     bpp |-> 4 * Pow2(GetBits(cmd, 51, 53)),
     pitch |-> GetBits(cmd, 41, 50) * 8,
     tmem_addr |-> GetBits(cmd, 32, 41) * 8,
     palette |-> GetBits(cmd, 20, 24),
     clamp |-> <<GetBit(cmd, 19) = 1, GetBit(cmd, 9) = 1>>,
     mirror |-> <<GetBit(cmd, 18) = 1, GetBit(cmd, 8) = 1>>,
     mask |-> <<Pow2(GetBits(cmd, 14, 18)) - 1, Pow2(GetBits(cmd, 4, 8)) - 1>>,
     shift |-> <<GetBits(cmd, 10, 14), GetBits(cmd, 0, 4)>>,
     rect |-> old.rect]

\* A decode that stores 1 << n as the mask and the line counts as bytes.
DecodeTileRaw(cmd, old) ==
    [color_format |-> parse_color_format(GetBits(cmd, 53, 56)),
     bpp |-> 4 * Pow2(GetBits(cmd, 51, 53)),
     pitch |-> GetBits(cmd, 41, 50),
     tmem_addr |-> GetBits(cmd, 32, 41),
     palette |-> GetBits(cmd, 20, 24),
     clamp |-> <<GetBit(cmd, 9) = 1, GetBit(cmd, 19) = 1>>,
     mirror |-> <<GetBit(cmd, 8) = 1, GetBit(cmd, 18) = 1>>,
     mask |-> <<Pow2(GetBits(cmd, 4, 8)), Pow2(GetBits(cmd, 14, 18))>>,
     shift |-> <<GetBits(cmd, 0, 4), GetBits(cmd, 10, 14)>>,
     rect |-> old.rect]

\* A decode into a fresh descriptor: the rectangle falls back to its default.
DecodeTileFresh(cmd, old) ==
    [color_format |-> parse_color_format(GetBits(cmd, 53, 56)),
     bpp |-> 4 * Pow2(GetBits(cmd, 51, 53)),
     pitch |-> GetBits(cmd, 41, 50) * 8,
     tmem_addr |-> GetBits(cmd, 32, 41) * 8,
     palette |-> GetBits(cmd, 20, 24),
     clamp |-> <<GetBit(cmd, 9) = 1, GetBit(cmd, 19) = 1>>,
     mirror |-> <<GetBit(cmd, 8) = 1, GetBit(cmd, 18) = 1>>,
     mask |-> <<Pow2(GetBits(cmd, 4, 8)) - 1, Pow2(GetBits(cmd, 14, 18)) - 1>>,
     shift |-> <<GetBits(cmd, 0, 4), GetBits(cmd, 10, 14)>>,
     rect |-> DefaultRect]

\* Lines 284-299: the tile a Set Tile word decodes to; rect is kept.
DecodeTile(cmd, old) ==
    [color_format |-> parse_color_format(GetBits(cmd, 53, 56)),
     bpp |-> 4 * Pow2(GetBits(cmd, 51, 53)),
     pitch |-> GetBits(cmd, 41, 50) * 8,
     tmem_addr |-> GetBits(cmd, 32, 41) * 8,
     palette |-> GetBits(cmd, 20, 24),
     clamp |-> <<GetBit(cmd, 9) = 1, GetBit(cmd, 19) = 1>>,
     mirror |-> <<GetBit(cmd, 8) = 1, GetBit(cmd, 18) = 1>>,
     mask |-> <<Pow2(GetBits(cmd, 4, 8)) - 1, Pow2(GetBits(cmd, 14, 18)) - 1>>,
     shift |-> <<GetBits(cmd, 0, 4), GetBits(cmd, 10, 14)>>,
     rect |-> old.rect]

\* A Set Tile that also clears tmem.
SetTileClearsTmem(cmd) ==
    /\ Dispatch(cmd, 53)
    /\ tiles' = [tiles EXCEPT ![GetBits(cmd, 24, 27)] = DecodeTile(cmd, @)]
    /\ tmem' = ZeroTmem
    /\ calls' = <<>>
    /\ Completed(cmd)
    /\ UNCHANGED <<clip, fb, tex, fill_color, cycle_mode, pipeline>>

\* 0x35 Set Tile
SetTile(cmd) ==
    /\ Dispatch(cmd, 53)
    /\ tiles' = [tiles EXCEPT ![GetBits(cmd, 24, 27)] = DecodeTile(cmd, @)]
    /\ calls' = <<>>
    /\ Completed(cmd)
    /\ UNCHANGED <<tmem, clip, fb, tex, fill_color, cycle_mode, pipeline>>

\* Lines 304-308: the rectangle of a Fill Rectangle word.
FillRectOf(cmd) ==
    RectFromBits(GetBits(cmd, 12, 24), GetBits(cmd, 0, 12),
                 GetBits(cmd, 44, 56), GetBits(cmd, 32, 44))

\* Lines 318-321: the rectangle in 32-bit words.
Rescale(r, bppconv) ==
    RectFromBits(r.c0.x \div bppconv, r.c0.y \div bppconv,
                 ((r.c1.x + One) \div bppconv) - One,
                 ((r.c1.y + One) \div bppconv) - One)

\* Lines 323 and 344: the rectangle has a fraction.
Misaligned(r) == Truncate(r) # r

\* Rdp::framebuffer: (fb_mem, 320, 240, self.fb.pitch())
Framebuffer(w) == View("dram", fb.dram_addr, w, 240, ImagePitch(fb))

\* Lines 320-321 subtract 1 from an unsigned quotient below 1.
RescaleOverflows(r, bppconv) ==
    \/ (r.c1.x + One) \div bppconv < One
    \/ (r.c1.y + One) \div bppconv < One

\* Lines 312-337: CycleMode::Fill.  32 / 0 panics in every build; an
\* overflowing subtraction panics in a build with overflow checks.
FillRectFill(cmd) ==
    \/ /\ fb.bpp = 0
       /\ calls' = <<>>
       /\ Panicked(cmd, "divide_by_zero")
    \/ /\ fb.bpp # 0
       /\ RescaleOverflows(FillRectOf(cmd), 32 \div fb.bpp)
       /\ calls' = <<>>
       /\ Panicked(cmd, "overflow")
    \/ /\ fb.bpp # 0
       /\ Misaligned(Rescale(FillRectOf(cmd), 32 \div fb.bpp))
       /\ calls' = <<>>
       /\ Panicked(cmd, "fill_rect_align")
    \/ /\ fb.bpp # 0
       /\ ~Misaligned(Rescale(FillRectOf(cmd), 32 \div fb.bpp))
       /\ calls' = << FetchWrite(fb.dram_addr),
                      Call("fill_rect", Framebuffer(320 \div (32 \div fb.bpp)), NoView,
                           Rescale(FillRectOf(cmd), 32 \div fb.bpp),
                           fill_color, <<"Rgba8888", "BigEndian">>) >>
       /\ Completed(cmd)

\* Lines 338-350: CycleMode::One
FillRectOne(cmd) ==
    \/ /\ Misaligned(FillRectOf(cmd))
       /\ calls' = <<FetchWrite(fb.dram_addr)>>
       /\ Panicked(cmd, "fill_rect_align")
    \/ /\ ~Misaligned(FillRectOf(cmd))
       /\ calls' = << FetchWrite(fb.dram_addr),
                      Call("fill_rect_pp", Framebuffer(320), NoView, FillRectOf(cmd),
                           fill_color, <<"Abgr8888", "LittleEndian">>) >>
       /\ Completed(cmd)

\* A Fill Rectangle that treats every mode but Fill as One.
FillRectangleTwoAsOne(cmd) ==
    /\ Dispatch(cmd, 54)
    /\ \/ cycle_mode = "Fill" /\ FillRectFill(cmd)
       \/ cycle_mode # "Fill" /\ FillRectOne(cmd)
    /\ UNCHANGED <<tmem, clip, fb, tex, tiles, fill_color, cycle_mode, pipeline>>

\* 0x36 Fill Rectangle
FillRectangle(cmd) ==
    /\ Dispatch(cmd, 54)
    /\ \/ cycle_mode = "Fill" /\ FillRectFill(cmd)
       \/ cycle_mode = "One" /\ FillRectOne(cmd)
       \/ /\ cycle_mode \in {"Two", "Copy"}
          /\ calls' = <<>>
          /\ Panicked(cmd, "unimplemented")
    /\ UNCHANGED <<tmem, clip, fb, tex, tiles, fill_color, cycle_mode, pipeline>>

\* 0x37 Set Fill Color
SetFillColor(cmd) ==
    /\ Dispatch(cmd, 55)
    /\ fill_color' = Low32(cmd)
    /\ calls' = <<>>
    /\ Completed(cmd)
    /\ UNCHANGED <<tmem, clip, fb, tex, tiles, cycle_mode, pipeline>>

\* 0x3C Set Combine Mode
SetCombineMode(cmd) ==
    /\ Dispatch(cmd, 60)
    /\ pipeline' = [pipeline EXCEPT !.combine_mode = cmd,
                                    !.configured = @ \cup {"combine_mode"}]
    /\ calls' = <<>>
    /\ Completed(cmd)
    /\ UNCHANGED <<tmem, clip, fb, tex, tiles, fill_color, cycle_mode>>

\* 0x39 Set Blend Color
SetBlendColor(cmd) ==
    /\ Dispatch(cmd, 57)
    /\ pipeline' = [pipeline EXCEPT !.blend_color = Low32(cmd),
                                    !.configured = @ \cup {"blend_color"}]
    /\ calls' = <<>>
    /\ Completed(cmd)
    /\ UNCHANGED <<tmem, clip, fb, tex, tiles, fill_color, cycle_mode>>

\* A default arm that forgets to clear the pending buffer.
UnimplementedKeepsPending(cmd) ==
    /\ cmdlen < MaxPending
    /\ OpOf(cmd) \notin KnownOps
    /\ calls' = <<>>
    /\ cmdlen' = cmdlen + 1
    /\ cmdbuf' = Buffered(cmd)
    /\ fault' = "none"
    /\ Entered(cmd)
    /\ UNCHANGED <<tmem, clip, fb, tex, tiles, fill_color, cycle_mode, pipeline>>

\* The default arm: an unimplemented command is logged and dropped.
Unimplemented(cmd) ==
    /\ cmdlen < MaxPending
    /\ OpOf(cmd) \notin KnownOps
    /\ calls' = <<>>
    /\ Completed(cmd)
    /\ UNCHANGED <<tmem, clip, fb, tex, tiles, fill_color, cycle_mode, pipeline>>

-----------------------------------------------------------------------------
(* Command words, built field by field as the hardware lays them out.      *)

MkSetScissor(x0, y0, x1, y1) ==
    MkWord(<< <<56, 62, 45>>, <<44, 56, x0>>, <<32, 44, y0>>,
              <<12, 24, x1>>, <<0, 12, y1>> >>)

\* op is 61 (Set Texture Image) or 63 (Set Color Image); width is in pixels.
MkSetImage(op, format, size, width, addr) ==
    MkWord(<< <<56, 62, op>>, <<53, 56, format>>, <<51, 53, size>>,
              <<32, 42, width - 1>>, <<0, 26, addr>> >>)

MkSyncTile == MkWord(<< <<56, 62, 40>> >>)

MkSetOtherModes(cycle) == MkWord(<< <<56, 62, 47>>, <<52, 54, cycle>> >>)

MkTextureRectangle(tile, x0, y0, x1, y1) ==
    MkWord(<< <<56, 62, 36>>, <<44, 56, x1>>, <<32, 44, y1>>, <<24, 27, tile>>,
              <<12, 24, x0>>, <<0, 12, y0>> >>)

\* The second word of a Texture Rectangle: four 16-bit fields.
MkTexCoords(s, t, dsdx, dtdy) ==
    MkWord(<< <<48, 64, s>>, <<32, 48, t>>, <<16, 32, dsdx>>, <<0, 16, dtdy>> >>)

MkLoadTile(tile, s0, t0, s1, t1) ==
    MkWord(<< <<56, 62, 52>>, <<44, 56, s0>>, <<32, 44, t0>>, <<24, 27, tile>>,
              <<12, 24, s1>>, <<0, 12, t1>> >>)

\* f: [idx, format, size, pitch, addr, palette, clamp, mirror, mask, shift],
\* pitch and addr in 8-byte lines, clamp and mirror pairs of 0/1, mask a
\* pair of exponents, axis 0 first.
MkSetTile(f) ==
    MkWord(<< <<56, 62, 53>>, <<53, 56, f.format>>, <<51, 53, f.size>>,
              <<41, 50, f.pitch>>, <<32, 41, f.addr>>, <<24, 27, f.idx>>,
              <<20, 24, f.palette>>,
              <<19, 20, f.clamp[2]>>, <<18, 19, f.mirror[2]>>,
              <<14, 18, f.mask[2]>>, <<10, 14, f.shift[2]>>,
              <<9, 10, f.clamp[1]>>, <<8, 9, f.mirror[1]>>,
              <<4, 8, f.mask[1]>>, <<0, 4, f.shift[1]>> >>)

MkFillRectangle(x0, y0, x1, y1) ==
    MkWord(<< <<56, 62, 54>>, <<44, 56, x1>>, <<32, 44, y1>>,
              <<12, 24, x0>>, <<0, 12, y0>> >>)

MkSetFillColor(hi, lo) == MkWord(<< <<56, 62, 55>>, <<16, 32, hi>>, <<0, 16, lo>> >>)

MkSetCombineMode(hi, lo) == MkWord(<< <<56, 62, 60>>, <<32, 56, hi>>, <<0, 16, lo>> >>)

MkSetBlendColor(hi, lo) == MkWord(<< <<56, 62, 57>>, <<16, 32, hi>>, <<0, 16, lo>> >>)

\* A word of an opcode the match has no arm for, with a payload.
MkUnknown(op, hi, lo) == MkWord(<< <<56, 62, op>>, <<16, 32, hi>>, <<0, 16, lo>> >>)

\* A tile of 16 bpp at tmem 0x100 with a pitch of 8 lines.
Tile16 ==
    [idx |-> 7, format |-> 0, size |-> 2, pitch |-> 8, addr |-> 32, palette |-> 0,
     clamp |-> <<0, 0>>, mirror |-> <<0, 0>>, mask |-> <<5, 5>>, shift |-> <<0, 0>>]

\* The command stream the model draws from: every known opcode, two words of
\* unknown opcodes (the texture coordinates 0, 0, 1.0, 1.0 read as a first
\* word have opcode 0), and a rectangle for each branch of Fill Rectangle.
Words ==
    { MkSetScissor(0, 0, 1280, 960),
      MkSetImage(61, 0, 2, 4, 4096),
      MkSetImage(63, 0, 2, 320, 8192),
      MkSyncTile,
      MkSetOtherModes(3),
      MkSetOtherModes(2),
      MkTextureRectangle(7, 0, 0, 32, 32),
      MkTexCoords(0, 0, 1024, 1024),
      MkUnknown(62, 255, 255),
      MkLoadTile(7, 0, 0, 28, 12),
      MkSetTile(Tile16),
      MkFillRectangle(0, 0, 124, 60),
      MkFillRectangle(0, 0, 122, 60),
      MkSetFillColor(65535, 1),
      MkSetCombineMode(1, 1),
      MkSetBlendColor(255, 255) }

-----------------------------------------------------------------------------

\* One call of op with a word of W.
Submit(W) ==
    \/ \E cmd \in W : SetScissor(cmd)
    \/ \E cmd \in W : SetImage(cmd)
    \/ \E cmd \in W : SyncTile(cmd)
    \/ \E cmd \in W : SetOtherModes(cmd)
    \/ \E cmd \in W : TextureRectangle(cmd)
    \/ \E cmd \in W : LoadTile(cmd)
    \/ \E cmd \in W : SetTile(cmd)
    \/ \E cmd \in W : FillRectangle(cmd)
    \/ \E cmd \in W : SetFillColor(cmd)
    \/ \E cmd \in W : SetCombineMode(cmd)
    \/ \E cmd \in W : SetBlendColor(cmd)
    \/ \E cmd \in W : Unimplemented(cmd)

Next == Submit(Words)

Spec == Init /\ [][Next]_vars

-----------------------------------------------------------------------------
(* Properties of the command assembler.  They read a word's fields from    *)
(* its limbs directly, not through GetBits.                                *)

\* Bits 56..61 of a word.
OpcodeOf(w) == (w[4] \div 256) % 64

\* Bits 24..26 of a word: the tile index of Load Tile, Set Tile and
\* Texture Rectangle.
TileOf(w) == (w[2] \div 256) % 8

\* The four 12-bit coordinates of a word: bits 44..55, 32..43, 12..23, 0..11.
CoordA(w) == (w[3] \div 4096) + 16 * (w[4] % 256)
CoordB(w) == w[3] % 4096
CoordC(w) == (w[1] \div 4096) + 16 * (w[2] % 256)
CoordD(w) == w[1] % 4096

OneWordOps == {45, 61, 63, 40, 47, 53, 60, 57, 55, 52, 54}

\* The last call of op was entered with an empty pending buffer.
FirstWord == last.op # -1 /\ last.len = 0

HasCall(fn) == \E i \in 1..Len(calls) : calls[i].fn = fn

\* The effect of the one-word command w, as the registers and the calls of
\* the last call of op show it.
OneWordEffect(w) ==
    LET op == OpcodeOf(w)
        image == IF op = 63 THEN fb ELSE tex
        size == (w[4] \div 8) % 4
    IN  /\ op = 45 => clip = RectFromBits(CoordA(w), CoordB(w), CoordC(w), CoordD(w))
        /\ op \in {61, 63} =>
              /\ image.bpp = 4 * Pow2(size)
              /\ image.width = (w[3] % 1024) + 1
              /\ image.dram_addr = w[1] + 65536 * (w[2] % 1024)
        /\ op = 47 =>
              /\ cycle_mode = <<"One", "Two", "Copy", "Fill">>[((w[4] \div 16) % 4) + 1]
              /\ pipeline.other_modes = w
        /\ op = 53 =>
              /\ tiles[TileOf(w)].bpp = 4 * Pow2(size)
              /\ tiles[TileOf(w)].tmem_addr = 8 * (w[3] % 512)
        /\ op = 60 => pipeline.combine_mode = w
        /\ op = 57 => pipeline.blend_color = <<w[1], w[2]>>
        /\ op = 55 => fill_color = <<w[1], w[2]>>
        /\ op = 52 =>
              /\ tiles[TileOf(w)].rect
                    = RectFromBits(CoordA(w), CoordB(w), CoordC(w), CoordD(w))
              /\ HasCall("draw_rect")
        /\ op = 54 => HasCall("fill_rect") \/ HasCall("fill_rect_pp")

\* C1: a one-word command submitted with the pending buffer empty has its
\* full effect within that call and leaves the pending length at 0.  Stated
\* of every call but those a build with overflow checks ends in an
\* arithmetic panic.
C1_OneWordCompletes ==
    (FirstWord /\ OpcodeOf(last.cmd) \in OneWordOps /\ fault # "overflow")
        => (cmdlen = 0 /\ OneWordEffect(last.cmd))

\* C2: the first word of a Texture Rectangle only waits; the next word,
\* whatever it is, triggers exactly one draw_rect_slopes that takes the tile
\* and the screen rectangle from the first word and s, t, dsdx, dtdy from the
\* second, and the pending length is 0 again.
C2_FirstWordWaits ==
    (cmdlen = 0 /\ OpcodeOf(last'.cmd) = 36)
        => /\ UNCHANGED <<regs, tmem, pipeline>>
           /\ calls' = <<>>
           /\ fault' = "none"
           /\ cmdlen' = 1

C2_SecondWordDraws ==
    (cmdlen = 1 /\ OpcodeOf(cmdbuf[1]) = 36)
        => LET w0 == cmdbuf[1]
               w1 == last'.cmd
               drawn == {i \in 1..Len(calls') : calls'[i].fn = "draw_rect_slopes"}
           IN  /\ cmdlen' = 0
               /\ Cardinality(drawn) = 1
               /\ \A i \in drawn :
                     /\ calls'[i].src.addr = tiles[TileOf(w0)].tmem_addr
                     /\ calls'[i].src.pitch = tiles[TileOf(w0)].pitch
                     /\ calls'[i].rect.c0 = [x |-> CoordC(w0), y |-> CoordD(w0)]
                     /\ calls'[i].rect.c1 = [x |-> CoordA(w0) - 4, y |-> CoordB(w0) - 4]
                     /\ calls'[i].a = << AsI16(w1[4]), AsI16(w1[3]),
                                         AsI16(w1[2]), AsI16(w1[1]) >>

C3_UnknownOpcodeDropped ==
    [][ (cmdlen = 0 /\ OpcodeOf(last'.cmd) \notin (OneWordOps \cup {36}))
            => /\ UNCHANGED <<regs, tmem>>
               /\ calls' = <<>>
               /\ cmdlen' = 0 ]_vars

\* An unknown opcode was dropped in a state whose registers are no longer
\* those of construction.
C3_Witness ==
    /\ FirstWord
    /\ OpcodeOf(last.cmd) = 62
    /\ cmdlen = 0
    /\ fill_color # <<0, 0>>
    /\ tiles[7].bpp = 16
    /\ fb.bpp = 16

\* C4: after a command that ended in one of the three fatal faults the
\* pending length is 0.
C4_ClearedAfterFault ==
    fault \in {"load_tile_bpp", "fill_rect_align", "unimplemented"} => cmdlen = 0

\* C5: a one-word handler decodes the word the opcode was read from.  Stated
\* of every call but those that follow an arithmetic panic of a build with
\* overflow checks.
C5_HandlerDecodesOpcodeWord ==
    [][ (fault # "overflow" /\ last'.op \in OneWordOps)
            => OpcodeOf(last'.cmd) = last'.op ]_vars

\* C5, the part that holds: the opcode is that of the first buffered word,
\* and the second word of a Texture Rectangle changes no register whatever
\* opcode its own bits name.
C5_SecondWordIsData ==
    [][ /\ last'.op = OpcodeOf(IF cmdlen = 0 THEN last'.cmd ELSE cmdbuf[1])
        /\ (cmdlen = 1 /\ OpcodeOf(cmdbuf[1]) = 36)
              => UNCHANGED <<regs, tmem, pipeline>> ]_vars

-----------------------------------------------------------------------------
(* Set Tile on its own: the words of a bounded set of field combinations.  *)

\* The all-zero field set of tile 0.
ZeroFields ==
    [idx |-> 0, format |-> 0, size |-> 0, pitch |-> 0, addr |-> 0, palette |-> 0,
     clamp |-> <<0, 0>>, mirror |-> <<0, 0>>, mask |-> <<0, 0>>, shift |-> <<0, 0>>]

\* The largest mask exponent and shift the model encodes (4-bit fields).
MaxNibble == Pow2(4) - 1

\* The largest line count the model encodes (9-bit fields).
MaxLines == Pow2(9) - 1

\* Every field at its largest, the two axes apart.
MixedFields ==
    [idx |-> 7, format |-> 4, size |-> 3, pitch |-> MaxLines, addr |-> MaxLines - 1,
     palette |-> MaxNibble, clamp |-> <<1, 0>>, mirror |-> <<0, 1>>,
     mask |-> <<MaxNibble, 3>>, shift |-> <<2, MaxNibble>>]

\* The zero pattern, each field alone at each of its values, and the mixed
\* pattern on each tile the model uses.
TileFields ==
    {ZeroFields}
    \cup {[ZeroFields EXCEPT !.size = v] : v \in 0..3}
    \cup {[ZeroFields EXCEPT !.format = v] : v \in {1, 4, 5, 7}}
    \cup {[ZeroFields EXCEPT !.pitch = v] : v \in {1, MaxLines}}
    \cup {[ZeroFields EXCEPT !.addr = v] : v \in {1, MaxLines}}
    \cup {[ZeroFields EXCEPT !.palette = v] : v \in {1, MaxNibble}}
    \cup {[ZeroFields EXCEPT !.clamp = v] : v \in {<<1, 0>>, <<0, 1>>}}
    \cup {[ZeroFields EXCEPT !.mirror = v] : v \in {<<1, 0>>, <<0, 1>>}}
    \cup {[ZeroFields EXCEPT !.mask = v] :
            v \in {<<1, 0>>, <<0, 1>>, <<MaxNibble, 0>>, <<0, MaxNibble>>}}
    \cup {[ZeroFields EXCEPT !.shift = v] :
            v \in {<<1, 0>>, <<0, 1>>, <<MaxNibble, 0>>, <<0, MaxNibble>>}}
    \cup {[MixedFields EXCEPT !.idx = i] : i \in {0, 1, 2, 4, 7}}

TileWords == {MkSetTile(f) : f \in TileFields}

NextTile == \E cmd \in TileWords : SetTile(cmd)

SpecTile == Init /\ [][NextTile]_vars

\* C6: the tile a Set Tile word leaves in its slot has the field values the
\* word was built from: bpp = 4 << size, pitch and tmem_addr 8 times their
\* line counts, mask[i] = 2^n - 1, and the fields of axis 0 and axis 1 apart.
C6_SetTileRoundTrip ==
    \A f \in TileFields :
        (last.op = 53 /\ last.cmd = MkSetTile(f)) =>
            LET t == tiles[f.idx]
            IN  /\ cmdlen = 0
                /\ t.bpp = 4 * Pow2(f.size)
                /\ t.pitch = 8 * f.pitch
                /\ t.tmem_addr = 8 * f.addr
                /\ t.palette = f.palette
                /\ \A i \in 1..2 :
                      /\ t.clamp[i] = (f.clamp[i] = 1)
                      /\ t.mirror[i] = (f.mirror[i] = 1)
                      /\ t.mask[i] = Pow2(f.mask[i]) - 1
                      /\ t.shift[i] = f.shift[i]

\* The mixed pattern was decoded into tile 7 after other Set Tile words.
C6_Witness ==
    /\ last.op = 53
    /\ last.cmd = MkSetTile(MixedFields)
    /\ tiles[7].mask = <<Pow2(MaxNibble) - 1, 7>>
    /\ tiles[0].bpp = 32

\* m is 2^n - 1 for some n.
IsMask(m) == \E n \in 0..30 : m = Pow2(n) - 1

\* C7: in every reachable state every mask is of the form 2^n - 1, and every
\* tmem_addr and pitch is a multiple of 8, the tmem_addr below the tmem size.
C7_TileInvariant ==
    \A i \in TileIdx :
        /\ IsMask(tiles[i].mask[1])
        /\ IsMask(tiles[i].mask[2])
        /\ tiles[i].tmem_addr % 8 = 0
        /\ tiles[i].pitch % 8 = 0
        /\ tiles[i].tmem_addr < TmemSize

\* Two tiles hold decoded masks and addresses that are not the default 0.
C7_Witness ==
    /\ tiles[7].mask = <<Pow2(MaxNibble) - 1, 7>>
    /\ tiles[7].tmem_addr = 8 * (MaxLines - 1)
    /\ tiles[0].pitch = 8 * MaxLines

\* C8: fb and tex have a width of at least 1 and a bpp of 4, 8, 16 or 32 in
\* every reachable state, the state after construction included.
C8_ImageFormatsValid ==
    /\ fb.width >= 1 /\ fb.bpp \in {4, 8, 16, 32}
    /\ tex.width >= 1 /\ tex.bpp \in {4, 8, 16, 32}

-----------------------------------------------------------------------------
(* Load Tile with its two registers: the tile and the texture image.       *)

\* A tile of the given size code at tmem 0x100 with a pitch of 8 lines.
TileOfSize(idx, size) == [Tile16 EXCEPT !.idx = idx, !.size = size]

\* The width of the widest texture image the model sets, in texels.
MaxTexWidth == 16

\* Every tile size against every texture image size, a texture image wider
\* than the loads and one narrower, and loads of 16 x 2 and 8 x 4 texels.
LoadWords ==
    {MkSetTile(TileOfSize(7, size)) : size \in 0..3}
    \cup {MkSetImage(61, 0, size, 4, 4096) : size \in 0..3}
    \cup {MkSetImage(61, 0, 2, MaxTexWidth, 4096)}
    \cup {MkLoadTile(7, 4, 4, 64, 8), MkLoadTile(7, 0, 0, 28, 12)}

NextLoad ==
    \E cmd \in LoadWords :
        \/ SetImage(cmd)
        \/ SetTile(cmd)
        \/ LoadTile(cmd)

SpecLoad == Init /\ [][NextLoad]_vars

\* The state holds the outcome of a Load Tile word submitted with nothing
\* pending.
LoadedFirst == FirstWord /\ OpcodeOf(last.cmd) = 52

\* C9: a Load Tile word ends in the unsupported-combination fault exactly
\* when it is not the case that the tile's bpp equals the texture image's
\* and is 8 or 16.
C9_UnsupportedFaultExactly ==
    LoadedFirst =>
        LET t == tiles[TileOf(last.cmd)]
        IN  (fault = "load_tile_bpp") <=> ~(t.bpp = tex.bpp /\ t.bpp \in {8, 16})

\* C9 once a Set Texture Image has been decoded: the only fault of a Load
\* Tile is then the unsupported-combination fault, raised exactly for the
\* combinations that are not copied.
C9_ExactlyWithTexture ==
    (LoadedFirst /\ tex.width >= 1) =>
        LET t == tiles[TileOf(last.cmd)]
        IN  /\ fault \in {"none", "load_tile_bpp"}
            /\ (fault = "load_tile_bpp") <=> ~(t.bpp = tex.bpp /\ t.bpp \in {8, 16})

\* The other half of C9: a Load Tile that faults leaves tmem as it was.
C9_FaultKeepsTmem ==
    [][(OpcodeOf(last'.cmd) = 52 /\ fault' # "none") => tmem' = tmem]_vars

\* The number of texels of a span whose ends are s0 and s1 in quarter texels;
\* the difference of an inverted span is taken modulo 2^32.
SpanTexels(s0, s1) ==
    IF s1 >= s0 THEN (s1 - s0) \div 4 + 1 ELSE Pow2(30) + ((s1 - s0) \div 4) + 1

\* C10: a completed Load Tile copies min(width, tex.width) x height texels,
\* width and height being the texels of the requested rectangle, between two
\* views of that size, and tiles[idx].rect keeps the requested rectangle.
C10_LoadTileTruncates ==
    (LoadedFirst /\ fault = "none") =>
        LET w == last.cmd
            width == SpanTexels(CoordA(w), CoordC(w))
            height == SpanTexels(CoordB(w), CoordD(w))
            copy_width == IF width < tex.width THEN width ELSE tex.width
            r == tiles[TileOf(w)].rect
        IN  /\ Len(calls) = 2
            /\ calls[2].fn = "draw_rect"
            /\ calls[2].dst.width = copy_width /\ calls[2].dst.height = height
            /\ calls[2].src.width = copy_width /\ calls[2].src.height = height
            /\ calls[2].rect.c1.x - calls[2].rect.c0.x = 32 * (copy_width - 1)
            /\ calls[2].rect.c1.y - calls[2].rect.c0.y = 8 * (CoordD(w) - CoordB(w))
            /\ tmem.dst.width = copy_width /\ tmem.dst.height = height
            /\ r.c0 = [x |-> CoordA(w), y |-> CoordB(w)]
            /\ r.c1 = [x |-> CoordC(w), y |-> CoordD(w)]

\* A load of 16 texels a line from a texture image 4 texels wide copied 4.
C10_Witness ==
    /\ LoadedFirst /\ fault = "none"
    /\ tex.width = 4 /\ tex.bpp = 16
    /\ CoordC(last.cmd) - CoordA(last.cmd) = 60
    /\ calls[2].dst.width = 4
    /\ tiles[7].rect.c1.x - tiles[7].rect.c0.x = 60

-----------------------------------------------------------------------------
(* Fill Rectangle under every cycle mode and framebuffer depth.            *)

\* Set Other Modes of every cycle field, Set Color Image of 16 and 32 bpp,
\* rectangles that are and are not multiples of bppconv, and one word each
\* of the opcodes that might touch the cycle mode.
FillWords ==
    {MkSetOtherModes(c) : c \in 0..3}
    \cup {MkSetImage(63, 0, 2, 320, 8192), MkSetImage(63, 0, 3, 320, 8192)}
    \cup {MkFillRectangle(0, 0, 124, 60), MkFillRectangle(0, 0, 122, 60),
          MkFillRectangle(1, 0, 124, 60), MkFillRectangle(4, 0, 124, 60),
          MkFillRectangle(8, 0, 124, 61), MkFillRectangle(8, 8, 60, 28)}
    \cup {MkSetFillColor(65535, 1), MkUnknown(62, 255, 255),
          MkLoadTile(7, 0, 0, 28, 12), MkTextureRectangle(7, 0, 0, 32, 32)}

NextFill ==
    \E cmd \in FillWords :
        \/ SetOtherModes(cmd)
        \/ SetImage(cmd)
        \/ FillRectangle(cmd)
        \/ SetFillColor(cmd)
        \/ LoadTile(cmd)
        \/ TextureRectangle(cmd)
        \/ Unimplemented(cmd)

SpecFill == Init /\ [][NextFill]_vars

\* The state holds the outcome of a Fill Rectangle word submitted with
\* nothing pending.
FilledFirst == FirstWord /\ OpcodeOf(last.cmd) = 54

\* q, a number of quarter pixels, is a whole multiple of n pixels.
WholeMultiple(q, n) == q % (4 * n) = 0

\* C11: in Fill mode a Fill Rectangle ends in the alignment fault, with no
\* framebuffer access, exactly when x0, y0, x1 + 1 or y1 + 1 is not a whole
\* multiple of bppconv = 32 / fb.bpp.
C11_FillAlignmentFault ==
    (FilledFirst /\ cycle_mode = "Fill" /\ fb.bpp # 0 /\ fault # "overflow") =>
        LET w == last.cmd
            bppconv == 32 \div fb.bpp
            exact == /\ WholeMultiple(CoordC(w), bppconv)
                     /\ WholeMultiple(CoordD(w), bppconv)
                     /\ WholeMultiple(CoordA(w) + 4, bppconv)
                     /\ WholeMultiple(CoordB(w) + 4, bppconv)
        IN  /\ (fault = "fill_rect_align") <=> ~exact
            /\ fault = "fill_rect_align" => calls = <<>>

\* C12: in Fill mode with fb.bpp = 16 the rectangle (0,0)-(31,15) is filled
\* without fault by one flat fill of the fill colour over (0,0,15,15).
C12_FillExample ==
    (/\ FilledFirst /\ cycle_mode = "Fill" /\ fb.bpp = 16
     /\ last.cmd = MkFillRectangle(0, 0, 124, 60)) =>
        /\ fault = "none"
        /\ Len(calls) = 2
        /\ calls[2].fn = "fill_rect"
        /\ calls[2].a = fill_color
        /\ calls[2].rect = RectFromBits(0, 0, 60, 60)

\* C13: a Fill Rectangle in cycle mode Two or Copy ends, whatever its
\* rectangle, in the unsupported-mode fault, which is neither the alignment
\* fault nor the Load Tile fault, and issues no fill and no memory access.
C13_UnsupportedModeFault ==
    [][(last'.op = 54 /\ cycle_mode \in {"Two", "Copy"}) =>
            /\ fault' = "unimplemented"
            /\ fault' \notin {"fill_rect_align", "load_tile_bpp", "none"}
            /\ calls' = <<>>
            /\ tmem' = tmem]_vars

\* The rectangle that Fill mode fills at 16 bpp was refused in Copy mode.
C13_Witness ==
    /\ FilledFirst
    /\ cycle_mode = "Copy"
    /\ fault = "unimplemented"
    /\ last.cmd = MkFillRectangle(0, 0, 124, 60)
    /\ fb.bpp = 16

\* The cycle field of a Set Other Modes word, bits 52..53.
CycleField(w) == (w[4] \div 16) % 4

\* C18: cycle_mode is One after construction; a Set Other Modes sets it from
\* its 2-bit field (0 One, 1 Two, 2 Copy, 3 Fill) and changes no other
\* register; no other opcode changes it; and Fill Rectangle takes the branch
\* of the cycle mode it finds.
C18_CycleModeSelectsBranch ==
    /\ [](last.op = -1 => cycle_mode = "One")
    /\ [][/\ last'.op = 47 =>
                /\ cycle_mode' = <<"One", "Two", "Copy", "Fill">>[CycleField(last'.cmd) + 1]
                /\ UNCHANGED <<clip, fb, tex, tiles, fill_color, tmem>>
          /\ last'.op # 47 => cycle_mode' = cycle_mode
          /\ last'.op = 54 =>
                /\ cycle_mode = "Fill" =>
                      \/ fault' \in {"fill_rect_align", "divide_by_zero", "overflow"}
                      \/ fault' = "none" /\ calls'[Len(calls')].fn = "fill_rect"
                /\ cycle_mode = "One" =>
                      \/ fault' = "fill_rect_align"
                      \/ fault' = "none" /\ calls'[Len(calls')].fn = "fill_rect_pp"
                /\ cycle_mode \in {"Two", "Copy"} => fault' = "unimplemented"]_vars

\* A fill through the pixel pipeline after a Set Other Modes set the mode
\* back to One and a Set Fill Color and a Set Color Image followed it.
C18_Witness ==
    /\ FilledFirst
    /\ cycle_mode = "One"
    /\ pipeline.other_modes = MkSetOtherModes(0)
    /\ HasCall("fill_rect_pp")
    /\ fill_color # <<0, 0>>
    /\ fb.bpp = 32

-----------------------------------------------------------------------------
(* Frame conditions and faults over the whole command stream.              *)

\* The opcodes whose arms only write registers.
RegisterOps == {45, 61, 63, 40, 47, 53, 60, 57, 55}

\* C14: tmem changes only in a step that executes Load Tile, and the arms of
\* the register-only opcodes make no bus or raster call and leave tmem alone.
C14_TmemFrame ==
    [][/\ tmem' # tmem => last'.op = 52
       /\ last'.op \in RegisterOps => (calls' = <<>> /\ tmem' = tmem)]_vars

\* A Set Tile ran after a Load Tile had copied into tmem.
C14_Witness ==
    /\ last.op = 53
    /\ tmem # ZeroTmem
    /\ tmem.bpp = 16
    /\ calls = <<>>

\* C19: a command that ends in one of the three fatal faults leaves clip, fb,
\* tex, all eight tiles, fill_color and cycle_mode as they were.
C19_FaultKeepsRegisters ==
    [][fault' \in {"load_tile_bpp", "fill_rect_align", "unimplemented"}
           => regs' = regs]_vars

\* C19 for the faults of Fill Rectangle alone.
C19_FillFaultKeepsRegisters ==
    [][fault' \in {"fill_rect_align", "unimplemented"} => regs' = regs]_vars

\* C20: the pending length on entry to op is 0 or 1, and 1 only while the
\* first word of a Texture Rectangle is pending.
C20_PendingAtMostOne ==
    /\ cmdlen <= 1
    /\ cmdlen = 1 => OpcodeOf(cmdbuf[1]) = 36

\* The size code of a Set Tile or Set Image word, bits 51..52.
SizeOf(w) == (w[4] \div 8) % 4

\* C16: a Set Tile on i replaces the format fields of tiles[i] and leaves
\* tiles[i].rect and every other tile alone; a Load Tile on i replaces only
\* tiles[i].rect, by the rectangle of its word, and leaves the format fields
\* of tiles[i] and every other tile alone.
C16_TileFrame ==
    [][LET w == last'.cmd
           i == TileOf(w)
       IN  /\ last'.op = 53 =>
                /\ \A j \in TileIdx \ {i} : tiles'[j] = tiles[j]
                /\ tiles'[i].rect = tiles[i].rect
                /\ tiles'[i].bpp = 4 * Pow2(SizeOf(w))
           /\ last'.op = 52 =>
                tiles' = [tiles EXCEPT ![i].rect =
                             RectFromBits(CoordA(w), CoordB(w), CoordC(w), CoordD(w))]
           /\ last'.op \notin {52, 53} => tiles' = tiles]_vars

\* A Set Tile changed the bpp of tile 7 after a Load Tile had set its
\* rectangle, and the rectangle is still that of the Load Tile.
C16_Witness ==
    /\ FirstWord
    /\ last.op = 53
    /\ tiles[7].bpp = 8
    /\ tmem.bpp = 16
    /\ tiles[7].rect = RectFromBits(4, 4, 64, 8)

-----------------------------------------------------------------------------
(* Set Color Image, Set Texture Image and the colour-format field.         *)

\* The largest width field (10 bits) and the largest address (26 bits).
MaxWidthField == Pow2(10) - 1
MaxDramAddr == Pow2(26) - 1

\* Both opcodes with every colour-format code, every size, and the extremes
\* of width and address; Set Tile with every colour-format code.
ImageWords ==
    {MkSetImage(op, f, 2, 320, 8192) : op \in {61, 63}, f \in 0..7}
    \cup {MkSetImage(op, 0, size, 1, 0) : op \in {61, 63}, size \in 0..3}
    \cup {MkSetImage(op, 7, 3, MaxWidthField + 1, MaxDramAddr) : op \in {61, 63}}
    \cup {MkSetTile([Tile16 EXCEPT !.idx = 3, !.format = f]) : f \in 0..7}

NextImage ==
    \E cmd \in ImageWords :
        \/ SetImage(cmd)
        \/ SetTile(cmd)

SpecImage == Init /\ [][NextImage]_vars

\* The colour-format code of a Set Tile or Set Image word, bits 53..55.
FormatCodeOf(w) == (w[4] \div 32) % 8

\* The image format a Set Image word holds, but for its colour format.
ImageFieldsOf(w, f) ==
    /\ f.bpp = 4 * Pow2(SizeOf(w))
    /\ f.width = (w[3] % 1024) + 1
    /\ f.dram_addr = w[1] + 65536 * (w[2] % 1024)

\* C15: a Set Tile, Set Color Image or Set Texture Image whose colour-format
\* code matches no enumerated format does not fault: it stores Rgba, decodes
\* every other field as for a valid code and leaves the pending length at 0.
C15_UnknownFormatIsRgba ==
    (last.op \in {53, 61, 63} /\ FormatCodeOf(last.cmd) >= Len(ColorFormats)) =>
        LET w == last.cmd
        IN  /\ fault = "none"
            /\ cmdlen = 0
            /\ last.op = 63 => (fb.color_format = "Rgba" /\ ImageFieldsOf(w, fb))
            /\ last.op = 61 => (tex.color_format = "Rgba" /\ ImageFieldsOf(w, tex))
            /\ last.op = 53 =>
                  /\ tiles[TileOf(w)].color_format = "Rgba"
                  /\ tiles[TileOf(w)].bpp = 4 * Pow2(SizeOf(w))
                  /\ tiles[TileOf(w)].pitch = 64
                  /\ tiles[TileOf(w)].tmem_addr = 256
                  /\ tiles[TileOf(w)].mask = <<31, 31>>

\* A Set Texture Image of the unknown code 7 stored Rgba over a texture
\* image that held another format, next to a tile set with the code 6.
C15_Witness ==
    /\ last.op = 61
    /\ last.cmd = MkSetImage(61, 7, 3, MaxWidthField + 1, MaxDramAddr)
    /\ tex = [color_format |-> "Rgba", bpp |-> 32, width |-> 1024,
              dram_addr |-> MaxDramAddr]
    /\ fb.color_format = "Intensity"
    /\ tiles[3].bpp = 16

\* C17: Set Color Image replaces fb and leaves tex, Set Texture Image replaces
\* tex and leaves fb; both store bpp = 4 << size, width = field + 1 and
\* dram_addr = the low 26 bits, and neither changes tiles, clip, fill_color
\* or cycle_mode.
C17_SetImageDecode ==
    [][LET w == last'.cmd
           cf == IF FormatCodeOf(w) < Len(ColorFormats)
                 THEN ColorFormats[FormatCodeOf(w) + 1] ELSE "Rgba"
       IN  /\ last'.op = 63 =>
                /\ ImageFieldsOf(w, fb') /\ fb'.color_format = cf
                /\ UNCHANGED <<tex, tiles, clip, fill_color, cycle_mode>>
           /\ last'.op = 61 =>
                /\ ImageFieldsOf(w, tex') /\ tex'.color_format = cf
                /\ UNCHANGED <<fb, tiles, clip, fill_color, cycle_mode>>]_vars

\* fb and tex hold different decoded formats and a tile was set.
C17_Witness ==
    /\ last.op = 63
    /\ fb = [color_format |-> "Yuv", bpp |-> 16, width |-> 320, dram_addr |-> 8192]
    /\ tex = [color_format |-> "Rgba", bpp |-> 4, width |-> 1, dram_addr |-> 0]
    /\ tiles[3].color_format = "ColorIndex"

====
